---- MODULE Spec2Model ----
(***************************************************************************)
(* Firefly III dashboard (src/app.py): paginated retrieval of the three   *)
(* transaction categories, the thread-pool orchestration of the fetches,  *)
(* the monthly/total/top-N aggregation and the single-slot TTL cache.     *)
(*                                                                         *)
(* Dates are triples <<year, month, day>>, a "%Y-%m" label is the pair     *)
(* <<year, month>>, Decimal amounts are integers, a Python dict that is    *)
(* iterated is a sequence of <<key, value>> pairs in insertion order.      *)
(***************************************************************************)
EXTENDS Integers, Sequences, FiniteSets, TLC

\* ------------------------------------------------------------------ bounds
\* Largest instant of the clock (datetime.utcnow() in abstract ticks).
MaxTime == 2
\* Page horizon of the synthetic remote APIs of SpecFetch.
MaxPage == 3
\* Longest per-category record list of the aggregation inputs of SpecAgg.
MaxRecs == 2
\* Number of different label texts in the record lists of SpecBreakdown.
MaxLabels == 7

\* ------------------------------------------------------------- basic data
None == "None"

\* for tx_type in ("withdrawal", "deposit", "transfer")
TxTypeOrder == <<"withdrawal", "deposit", "transfer">>

TxTypes == {TxTypeOrder[i] : i \in 1..Len(TxTypeOrder)}

\* or "未分类" / or "未知账户": the fallback labels of _parse_group
FallbackCategory == "uncategorized"

FallbackAccount == "unknown account"

\* faulty variant: only None is replaced, the empty string is kept
OrDefaultNoneOnly(x, default) == IF x = None THEN default ELSE x

\* x or default: None and the empty string are falsy
OrDefault(x, default) == IF x = None \/ x = "" THEN default ELSE x

RECURSIVE SumAmounts(_)
\* sum((tx["amount"] for tx in items), Decimal("0"))
SumAmounts(items) ==
    IF items = <<>> THEN 0 ELSE Head(items).amount + SumAmounts(Tail(items))

RECURSIVE SumSeq(_)
SumSeq(s) == IF s = <<>> THEN 0 ELSE Head(s) + SumSeq(Tail(s))

Min(a, b) == IF a <= b THEN a ELSE b

Max(a, b) == IF a >= b THEN a ELSE b

Abs(n) == IF n < 0 THEN -n ELSE n

\* dict.get(key, default) on a dict held as a sequence of <<key, value>> pairs
DictHas(d, k) == \E i \in 1..Len(d) : d[i][1] = k

DictGet(d, k, default) ==
    IF DictHas(d, k) THEN d[CHOOSE i \in 1..Len(d) : d[i][1] = k][2] ELSE default

\* d[k] = v: replaces the value of an existing key in place, appends a new key
DictSet(d, k, v) ==
    IF DictHas(d, k)
    THEN [i \in 1..Len(d) |-> IF d[i][1] = k THEN <<k, v>> ELSE d[i]]
    ELSE Append(d, <<k, v>>)

DictKeys(d) == {d[i][1] : i \in 1..Len(d)}

\* ------------------------------------------------------------------ dates
\* date comparison: lexicographic on (year, month, day)
DateLeq(a, b) ==
    \/ a[1] < b[1]
    \/ a[1] = b[1] /\ a[2] < b[2]
    \/ a[1] = b[1] /\ a[2] = b[2] /\ a[3] <= b[3]

IsLeap(y) == (y % 4 = 0 /\ y % 100 # 0) \/ y % 400 = 0

DaysIn(y, m) ==
    IF m = 2 THEN (IF IsLeap(y) THEN 29 ELSE 28)
    ELSE IF m \in {4, 6, 9, 11} THEN 30 ELSE 31

\* faulty variant: the day is kept, the properties of the month list must notice
month_start_keep_day(value) == value

\* value.replace(day=1)
month_start(value) == <<value[1], value[2], 1>>

\* value + relativedelta(months=1): next month, the day clipped to its length
AddOneMonth(value) ==
    LET y == IF value[2] = 12 THEN value[1] + 1 ELSE value[1]
        m == IF value[2] = 12 THEN 1 ELSE value[2] + 1
    IN  <<y, m, Min(value[3], DaysIn(y, m))>>

\* strftime("%Y-%m"): the year and the month, the day dropped
StrfYm(value) == <<value[1], value[2]>>

\* strftime("%Y-%m-%d")
StrfYmd(value) == <<value[1], value[2], value[3]>>

RECURSIVE MonthLoop(_, _)
\* while current <= end_month: months.append(current); current = ...
MonthLoop(current, end_month) ==
    IF DateLeq(current, end_month)
    THEN <<current>> \o MonthLoop(month_start(AddOneMonth(current)), end_month)
    ELSE <<>>

month_sequence(start, end) == MonthLoop(month_start(start), month_start(end))

\* ------------------------------------------------------------ aggregation
\* buckets[key][tx_type] of the defaultdict, keyed here by <<key, tx_type>>
BucketGet(buckets, key, tx_type) ==
    IF <<key, tx_type>> \in DOMAIN buckets THEN buckets[<<key, tx_type>>] ELSE 0

\* buckets[key][tx_type] += tx["amount"]
BucketAdd(buckets, key, tx_type, amount) ==
    IF <<key, tx_type>> \in DOMAIN buckets
    THEN [buckets EXCEPT ![<<key, tx_type>>] = @ + amount]
    ELSE buckets @@ (<<key, tx_type>> :> amount)

\* faulty variant: every record put in the first month of its year
BucketKeyOfYear(tx) == <<tx.booked_at[1], 1>>

\* key = month_start(booked_at.date()).strftime("%Y-%m")
BucketKey(tx) == StrfYm(month_start(tx.booked_at))

RECURSIVE FillItems(_, _, _)
\* for tx in items
FillItems(buckets, tx_type, items) ==
    IF items = <<>> THEN buckets
    ELSE FillItems(BucketAdd(buckets, BucketKey(Head(items)), tx_type, Head(items).amount),
                   tx_type, Tail(items))

RECURSIVE FillBuckets(_, _)
\* for tx_type, items in transactions.items()
FillBuckets(buckets, transactions) ==
    IF transactions = <<>> THEN buckets
    ELSE FillBuckets(FillItems(buckets, Head(transactions)[1], Head(transactions)[2]),
                     Tail(transactions))

EmptyBuckets == [k \in {} |-> 0]

aggregate_monthly(transactions, months) ==
    LET buckets == FillBuckets(EmptyBuckets, transactions)
        key(i) == StrfYm(months[i])
    IN  [labels     |-> [i \in 1..Len(months) |-> key(i)],
         withdrawal |-> [i \in 1..Len(months) |-> BucketGet(buckets, key(i), "withdrawal")],
         deposit    |-> [i \in 1..Len(months) |-> BucketGet(buckets, key(i), "deposit")],
         transfer   |-> [i \in 1..Len(months) |-> BucketGet(buckets, key(i), "transfer")],
         net        |-> [i \in 1..Len(months) |->
                            BucketGet(buckets, key(i), "deposit")
                            - BucketGet(buckets, key(i), "withdrawal")]]

RECURSIVE TotalsLoop(_, _)
\* for tx_type, items in transactions.items(): totals[tx_type] = float(sum(...))
TotalsLoop(totals, transactions) ==
    IF transactions = <<>> THEN totals
    ELSE TotalsLoop(DictSet(totals, Head(transactions)[1], SumAmounts(Head(transactions)[2])),
                    Tail(transactions))

\* a dict as a value: two dicts are equal when their keys and values are,
\* whatever the insertion order
DictValue(d) == [k \in DictKeys(d) |-> DictGet(d, k, 0)]

\* d.get(k, default) on a dict value
Get(d, k, default) == IF k \in DOMAIN d THEN d[k] ELSE default

\* faulty variant: net taken from the first two entries of the mapping, by
\* position instead of by key
aggregate_totals_by_position(transactions) ==
    LET totals == TotalsLoop(<<>>, transactions)
    IN  DictValue(DictSet(totals, "net",
                          IF Len(totals) >= 2 THEN totals[2][2] - totals[1][2] ELSE 0))

aggregate_totals(transactions) ==
    LET totals == TotalsLoop(<<>>, transactions)
    IN  DictValue(DictSet(totals, "net",
                          DictGet(totals, "deposit", 0) - DictGet(totals, "withdrawal", 0)))

RECURSIVE GroupLoop(_, _, _)
\* for tx in items: label = tx.get(key) or "未分类"; totals[label] += tx["amount"]
GroupLoop(totals, items, key) ==
    IF items = <<>> THEN totals
    ELSE LET label == OrDefault(Head(items)[key], FallbackCategory)
         IN  GroupLoop(DictSet(totals, label, DictGet(totals, label, 0) + Head(items).amount),
                       Tail(items), key)

RECURSIVE InsertDescBeforeTies(_, _)
\* faulty variant: an insertion that puts the pair before the entries of equal
\* amount, as an unstable sort could
InsertDescBeforeTies(sorted, pair) ==
    IF sorted = <<>> THEN <<pair>>
    ELSE IF Head(sorted)[2] > pair[2]
         THEN <<Head(sorted)>> \o InsertDescBeforeTies(Tail(sorted), pair)
         ELSE <<pair>> \o sorted

RECURSIVE InsertDesc(_, _)
\* one insertion of a stable descending sort: pair goes after every entry whose
\* amount is greater or equal (sorted(..., reverse=True) keeps ties in input order)
InsertDesc(sorted, pair) ==
    IF sorted = <<>> THEN <<pair>>
    ELSE IF Head(sorted)[2] >= pair[2]
         THEN <<Head(sorted)>> \o InsertDesc(Tail(sorted), pair)
         ELSE <<pair>> \o sorted

RECURSIVE SortDesc(_, _)
SortDesc(sorted, pairs) ==
    IF pairs = <<>> THEN sorted
    ELSE SortDesc(InsertDesc(sorted, Head(pairs)), Tail(pairs))

\* limit: int = 5
BreakdownLimit == 5

\* faulty variant: the first groups in the order they were met, unsorted
top_breakdown_unranked(items, key) ==
    LET groups == GroupLoop(<<>>, items, key)
    IN  SubSeq(groups, 1, Min(Len(groups), BreakdownLimit))

top_breakdown(items, key) ==
    LET ranked == SortDesc(<<>>, GroupLoop(<<>>, items, key))
    IN  SubSeq(ranked, 1, Min(Len(ranked), BreakdownLimit))

\* config.period_start / config.period_end of a loaded AppConfig are never None
PrepareMonths(config) ==
    LET months == month_sequence(config.period_start, config.period_end)
    IN  IF months = <<>> THEN <<month_start(config.period_start)>> ELSE months

\* lines 254-280 of prepare_context: the context built from the fetched mapping;
\* a quotient total / month_count is held as the pair <<total, month_count>>
BuildContext(config, transactions, utcnow) ==
    LET months == PrepareMonths(config)
        monthly_series == aggregate_monthly(transactions, months)
        totals == aggregate_totals(transactions)
        month_count == Max(Len(months), 1)
        of(t) == DictGet(transactions, t, <<>>)
    IN  [monthly_labels |-> monthly_series.labels,
         monthly_withdrawals |-> monthly_series.withdrawal,
         monthly_deposits |-> monthly_series.deposit,
         monthly_transfers |-> monthly_series.transfer,
         monthly_net |-> monthly_series.net,
         totals |-> totals,
         average_withdrawal |-> <<Get(totals, "withdrawal", 0), month_count>>,
         average_deposit |-> <<Get(totals, "deposit", 0), month_count>>,
         average_net |-> <<Get(totals, "net", 0), month_count>>,
         top_spending_categories |-> top_breakdown(of("withdrawal"), "category"),
         top_income_categories |-> top_breakdown(of("deposit"), "category"),
         top_source_accounts |-> top_breakdown(of("withdrawal"), "source"),
         top_destination_accounts |-> top_breakdown(of("deposit"), "destination"),
         top_transfer_accounts |-> top_breakdown(of("transfer"), "destination"),
         last_updated |-> utcnow,
         date_range |-> [start |-> StrfYmd(config.period_start),
                         end |-> StrfYmd(config.period_end)],
         months |-> Len(months)]

\* ------------------------------------------------- remote API and parsing
\* One split transaction of the API's JSON. amount and date are tagged:
\* k = "num" / "iso" parses, k = "bad" is text the parser rejects, k = "missing"
\* is an absent key (amount: .get("amount", "0"); date: .get("date") is None).
RawTx(id, amount, date, category_name, source_name, destination_name) ==
    [transaction_journal_id |-> id, amount |-> amount, date |-> date,
     category_name |-> category_name, source_name |-> source_name,
     destination_name |-> destination_name,
     currency_code |-> "EUR", foreign_currency_code |-> None]

Num(v) == [k |-> "num", v |-> v]

BadText == [k |-> "bad", v |-> 0]

Iso(y, m, d) == [k |-> "iso", d |-> <<y, m, d>>]

MissingDate == [k |-> "missing", d |-> <<0, 0, 0>>]

\* group["attributes"]: description and the split transactions
Group(description, transactions) ==
    [description |-> description, transactions |-> transactions]

\* payload: data and meta.pagination.total_pages (has_total_pages: key present)
Payload(data, has_total_pages, total_pages) ==
    [data |-> data, has_total_pages |-> has_total_pages, total_pages |-> total_pages]

\* what requests.get + raise_for_status + json() hand to the loop: a payload, or
\* an HTTPError / transport failure raised
OkResponse(payload) == [ok |-> TRUE, payload |-> payload]

HttpError == [ok |-> FALSE, payload |-> Payload(<<>>, FALSE, 0)]

\* Decimal(str(transaction.get("amount", "0"))): raises on unparseable text
AmountParses(transaction) == transaction.amount.k \in {"num", "missing"}

ParseAmount(transaction) ==
    IF transaction.amount.k = "num" THEN transaction.amount.v ELSE 0

\* parser.isoparse(transaction.get("date")): raises on None and on bad text
DateParses(transaction) == transaction.date.k = "iso"

\* the dict yielded for one split transaction (lines 153-171)
ParseTx(transaction, description, transaction_type) ==
    [id |-> transaction.transaction_journal_id,
     type |-> transaction_type,
     booked_at |-> transaction.date.d,
     amount |-> Abs(ParseAmount(transaction)),
     currency |-> OrDefault(transaction.currency_code,
                            OrDefault(transaction.foreign_currency_code, "")),
     category |-> OrDefault(transaction.category_name, FallbackCategory),
     source |-> OrDefault(transaction.source_name, FallbackAccount),
     destination |-> OrDefault(transaction.destination_name, FallbackAccount),
     description |-> description]

\* the exception a split transaction raises, None when it parses: the amount is
\* parsed before the date; isoparse(None) is a TypeError, bad text a ValueError
TxError(transaction) ==
    IF ~AmountParses(transaction) THEN "InvalidOperation"
    ELSE IF transaction.date.k = "missing" THEN "TypeError"
    ELSE IF ~DateParses(transaction) THEN "ValueError"
    ELSE None

RECURSIVE ParseSplitsSkipping(_, _, _, _)
\* faulty variant: a split transaction that does not parse is left out
ParseSplitsSkipping(acc, splits, description, transaction_type) ==
    IF splits = <<>> THEN [error |-> None, records |-> acc]
    ELSE IF TxError(Head(splits)) # None
         THEN ParseSplitsSkipping(acc, Tail(splits), description, transaction_type)
         ELSE ParseSplitsSkipping(
                  Append(acc, ParseTx(Head(splits), description, transaction_type)),
                  Tail(splits), description, transaction_type)

RECURSIVE ParseSplits(_, _, _, _)
\* for transaction in attributes.get("transactions", []): ... yield {...}
ParseSplits(acc, splits, description, transaction_type) ==
    IF splits = <<>> THEN [error |-> None, records |-> acc]
    ELSE IF TxError(Head(splits)) # None
         THEN [error |-> TxError(Head(splits)), records |-> acc]
         ELSE ParseSplits(Append(acc, ParseTx(Head(splits), description, transaction_type)),
                          Tail(splits), description, transaction_type)

\* _parse_group consumed by transactions.extend: the records, or the exception
parse_group(group, transaction_type) ==
    ParseSplits(<<>>, group.transactions, group.description, transaction_type)

RECURSIVE ParseData(_, _, _)
\* for group in data: transactions.extend(self._parse_group(group, transaction_type))
ParseData(transactions, data, transaction_type) ==
    IF data = <<>> THEN [error |-> None, records |-> transactions]
    ELSE LET got == parse_group(Head(data), transaction_type)
         IN  IF got.error # None
             THEN [error |-> got.error, records |-> transactions \o got.records]
             ELSE ParseData(transactions \o got.records, Tail(data), transaction_type)

\* faulty variants of the stop test: stop after any page, one page too late,
\* no default for absent metadata
LastPageAlways(page, payload) == TRUE

LastPageStrict(page, payload) ==
    page > (IF payload.has_total_pages THEN payload.total_pages ELSE page)

LastPageNoDefault(page, payload) ==
    payload.has_total_pages /\ page >= payload.total_pages

\* page >= pagination.get("total_pages", page)
LastPage(page, payload) ==
    page >= (IF payload.has_total_pages THEN payload.total_pages ELSE page)

\* A call of fetch_transactions: its position in the while loop. requests is the
\* list of page numbers requested so far and served the payloads answered.
FetchStart(transaction_type) ==
    [type |-> transaction_type, status |-> "running", page |-> 1,
     transactions |-> <<>>, error |-> None, requests |-> <<>>, served |-> <<>>]

\* one iteration of the while loop (lines 127-145) on the response received
FetchStep(f, response) ==
    LET asked == [f EXCEPT !.requests = Append(@, f.page),
                           !.served = Append(@, response)]
    IN  IF ~response.ok
        THEN [asked EXCEPT !.status = "raised", !.error = "HTTPError"]
        ELSE LET got == ParseData(f.transactions, response.payload.data, f.type)
             IN  IF got.error # None
                 THEN [asked EXCEPT !.status = "raised", !.error = got.error,
                                    !.transactions = got.records]
                 ELSE IF LastPage(f.page, response.payload)
                      THEN [asked EXCEPT !.status = "returned",
                                         !.transactions = got.records]
                      ELSE [asked EXCEPT !.page = @ + 1,
                                         !.transactions = got.records]

\* ------------------------------------------------------------------ state
VARIABLES
    clock,      \* datetime.utcnow(), in ticks
    remote,     \* the remote API: remote[type][page] is the payload it serves
    config,     \* the AppConfig handed to get()
    entry,      \* DashboardCache._entry: <<>> (None) or <<[value, expires_at]>>
    lock,       \* DashboardCache._lock: None or the thread holding it
    thread,     \* thread[c]: the locals of caller c's get() / prepare_context
    history,    \* of a sequential client: its previous call, the entry at the call
    fetch,      \* a call of fetch_transactions on its own (SpecFetch)
    agg         \* an aggregation on its own (SpecAgg): its input and its result

vars == <<clock, remote, config, entry, lock, thread, history, fetch, agg>>

\* the request threads of a threaded server (app.run serves each request in a
\* thread of its own)
Callers == {"c1", "c2"}

\* timedelta(minutes=config.cache_ttl_minutes), in ticks
Ttl(cfg) == cfg.cache_ttl_minutes

NoReturn == [kind |-> "none", value |-> None, error |-> None, from |-> 0]

\* the locals of a thread that is not inside get(). fut is future_map in
\* submission order; initial and queue are the state of as_completed: the
\* futures found finished at its start, and the waiter's finished_futures.
\* first_failed and failed_at_start only record history.
Idle ==
    [pc |-> "idle", force_refresh |-> FALSE, now |-> 0, fut |-> <<>>,
     initial |-> {}, queue |-> <<>>, first_failed |-> 0, failed_at_start |-> {},
     transactions |-> <<>>, context |-> <<>>, expires_at |-> 0,
     fetched |-> FALSE, ret |-> NoReturn]

\* future.done(): the i-th submitted fetch has returned or raised
Finished(th, i) == th.fut[i].status # "running"

\* the fetches of a thread's executor that are submitted and not finished
InFlight(th) == {i \in 1..Len(th.fut) : ~Finished(th, i)}

\* ------------------------------------------------------ DashboardCache.get
\* faulty variants of the validity test: an entry taken as expired one tick
\* early, force_refresh ignored
CacheHitOffByOne(force_refresh, e, now) ==
    ~force_refresh /\ e # <<>> /\ e[1].expires_at > now + 1

CacheHitIgnoringForce(force_refresh, e, now) ==
    e # <<>> /\ e[1].expires_at > now

\* not force_refresh and self._entry and self._entry.expires_at > now
CacheHit(force_refresh, e, now) ==
    ~force_refresh /\ e # <<>> /\ e[1].expires_at > now

\* lines 295-296: a request thread enters get()
Enter(c) ==
    /\ thread[c].pc \in {"idle", "done"}
    /\ \E force_refresh \in BOOLEAN :
         thread' = [thread EXCEPT ![c] = [Idle EXCEPT !.pc = "lock1",
                                                      !.force_refresh = force_refresh,
                                                      !.now = clock]]
    /\ UNCHANGED <<clock, remote, config, entry, lock, fetch, agg>>

\* a request of a threaded server
Call(c) == Enter(c) /\ UNCHANGED history

\* a request of a sequential client, which remembers how the call it made
\* before ended and the entry the cache holds as the call starts
CallNext(c) ==
    /\ Enter(c)
    /\ history' = [prev |-> IF thread[c].pc = "done"
                            THEN <<[now |-> thread[c].now,
                                    fetched |-> thread[c].fetched,
                                    kind |-> thread[c].ret.kind,
                                    value |-> thread[c].ret.value]>>
                            ELSE <<>>,
                   entry0 |-> entry]

\* line 298: with self._lock (acquire)
AcquireRead(c) ==
    /\ thread[c].pc = "lock1"
    /\ lock = None
    /\ lock' = c
    /\ thread' = [thread EXCEPT ![c].pc = "check"]
    /\ UNCHANGED <<clock, remote, config, entry, history, fetch, agg>>

\* lines 299-300: the entry is valid, return self._entry.value (lock released)
CheckHit(c) ==
    /\ thread[c].pc = "check"
    /\ lock = c
    /\ CacheHit(thread[c].force_refresh, entry, thread[c].now)
    /\ lock' = None
    /\ thread' = [thread EXCEPT ![c].pc = "done",
                                ![c].ret = [kind |-> "value", value |-> entry[1].value,
                                            error |-> None, from |-> 0]]
    /\ UNCHANGED <<clock, remote, config, entry, history, fetch, agg>>

\* faulty variants of the miss: a caller that lets a refresh in flight finish
\* before it starts its own, a caller that keeps the lock over its refresh
CheckMissCoalescing(c) ==
    /\ thread[c].pc = "check"
    /\ lock = c
    /\ ~CacheHit(thread[c].force_refresh, entry, thread[c].now)
    /\ \A other \in DOMAIN thread \ {c} : thread[other].fut = <<>>
    /\ lock' = None
    /\ thread' = [thread EXCEPT ![c].pc = "prepare"]
    /\ UNCHANGED <<clock, remote, config, entry, history, fetch, agg>>

CheckMissKeepingLock(c) ==
    /\ thread[c].pc = "check"
    /\ lock = c
    /\ ~CacheHit(thread[c].force_refresh, entry, thread[c].now)
    /\ thread' = [thread EXCEPT ![c].pc = "prepare"]
    /\ UNCHANGED <<clock, remote, config, entry, lock, history, fetch, agg>>

\* line 299 false: leave the with block (lock released) and go on to line 302
CheckMiss(c) ==
    /\ thread[c].pc = "check"
    /\ lock = c
    /\ ~CacheHit(thread[c].force_refresh, entry, thread[c].now)
    /\ lock' = None
    /\ thread' = [thread EXCEPT ![c].pc = "prepare"]
    /\ UNCHANGED <<clock, remote, config, entry, history, fetch, agg>>

\* ------------------------------------------------------- prepare_context
\* ThreadPoolExecutor(max_workers=3)
max_workers == 3

\* faulty variant: the same category submitted for every element of the tuple
SubmitRepeated == [i \in 1..Len(TxTypeOrder) |-> FetchStart(TxTypeOrder[1])]

\* future_map: one executor.submit(client.fetch_transactions, tx_type, ...) per
\* tx_type of the tuple, in its order
SubmitAll == [i \in 1..Len(TxTypeOrder) |-> FetchStart(TxTypeOrder[i])]

\* lines 236-249: the month list, the client, and the submits to a new
\* executor; with no more work items than max_workers each gets a worker
\* thread at once
Submit(c) ==
    /\ thread[c].pc = "prepare"
    /\ Len(SubmitAll) <= max_workers
    /\ thread' = [thread EXCEPT ![c].pc = "iterate",
                                ![c].fetched = TRUE,
                                ![c].fut = SubmitAll]
    /\ UNCHANGED <<clock, remote, config, entry, lock, history, fetch, agg>>

\* the responses the remote API may give to a request for `page` of type `t`:
\* the page it holds, or a failure (an error status, a transport failure)
Responses(t, page) == {HttpError, OkResponse(remote[t][page])}

\* a worker's fetch has taken one more iteration of its loop: when the call ends
\* the future completes and, if as_completed has installed its waiter, is
\* appended to the waiter's finished_futures
WorkerStep(th, i, f) ==
    [th EXCEPT !.fut[i] = f,
               !.queue = IF f.status # "running" /\ th.pc # "iterate"
                         THEN Append(@, i) ELSE @,
               !.first_failed = IF f.status = "raised" /\ @ = 0 THEN i ELSE @]

\* a worker thread of caller c's executor runs one iteration of the loop of
\* fetch_transactions for its category
FetchPage(c, i) ==
    /\ thread[c].pc \in {"iterate", "collect", "shutdown"}
    /\ i \in InFlight(thread[c])
    /\ thread[c].fut[i].page <= Len(remote[thread[c].fut[i].type])
    /\ \E response \in Responses(thread[c].fut[i].type, thread[c].fut[i].page) :
         thread' = [thread EXCEPT ![c] =
                        WorkerStep(thread[c], i, FetchStep(thread[c].fut[i], response))]
    /\ UNCHANGED <<clock, remote, config, entry, lock, history, fetch, agg>>

\* line 250, the first next() of as_completed(future_map): the futures already
\* finished are put aside as a set, a waiter is installed on the others
StartIteration(th) ==
    [th EXCEPT !.pc = "collect",
               !.initial = {i \in 1..Len(th.fut) : Finished(th, i)},
               !.failed_at_start = {i \in 1..Len(th.fut) : th.fut[i].status = "raised"}]

AsCompletedStart(c) ==
    /\ thread[c].pc = "iterate"
    /\ thread' = [thread EXCEPT ![c] = StartIteration(thread[c])]
    /\ UNCHANGED <<clock, remote, config, entry, lock, history, fetch, agg>>

\* the futures as_completed may yield next: any of those finished at its start
\* (they are yielded first, in the iteration order of a set of Future objects),
\* then the others in the order they finish
CanYield(th) ==
    IF th.initial # {} THEN th.initial
    ELSE IF th.queue # <<>> THEN {Head(th.queue)} ELSE {}

\* lines 251-252 for the future as_completed yields: its result is stored under
\* its type, or its exception leaves the loop; after the last result the with
\* block is left (shutdown has nothing to wait for)
Yield(th, i) ==
    LET rest == [th EXCEPT !.initial = @ \ {i},
                           !.queue = IF i \in th.initial THEN @ ELSE Tail(@)]
    IN  IF th.fut[i].status = "returned"
        THEN LET got == DictSet(th.transactions, th.fut[i].type, th.fut[i].transactions)
             IN  [rest EXCEPT !.transactions = got,
                              !.pc = IF rest.initial = {} /\ rest.queue = <<>>
                                        /\ InFlight(th) = {}
                                     THEN "aggregate" ELSE "collect"]
        ELSE [rest EXCEPT !.pc = "shutdown",
                          !.ret = [kind |-> "pending", value |-> None,
                                   error |-> th.fut[i].error, from |-> i]]

Collect(c) ==
    /\ thread[c].pc = "collect"
    /\ \E i \in CanYield(thread[c]) :
         thread' = [thread EXCEPT ![c] = Yield(thread[c], i)]
    /\ UNCHANGED <<clock, remote, config, entry, lock, history, fetch, agg>>

\* faulty variant: shutdown(wait=False), the with block left at once
CanLeaveAtOnce(th) == TRUE

\* executor.shutdown(wait=True) on leaving the with block with an exception:
\* the workers are joined
CanLeave(th) == InFlight(th) = {}

\* prepare_context and get() raise the exception to the caller
Raise(th) ==
    [th EXCEPT !.pc = "done", !.ret.kind = "error", !.fut = <<>>, !.initial = {},
               !.queue = <<>>, !.first_failed = 0, !.failed_at_start = {},
               !.transactions = <<>>]

\* faulty variant: a failed refresh drops the entry the cache holds
ShutdownInvalidate(c) ==
    /\ thread[c].pc = "shutdown"
    /\ CanLeave(thread[c])
    /\ thread' = [thread EXCEPT ![c] = Raise(thread[c])]
    /\ entry' = <<>>
    /\ UNCHANGED <<clock, remote, config, lock, history, fetch, agg>>

ShutdownRaise(c) ==
    /\ thread[c].pc = "shutdown"
    /\ CanLeave(thread[c])
    /\ thread' = [thread EXCEPT ![c] = Raise(thread[c])]
    /\ UNCHANGED <<clock, remote, config, entry, lock, history, fetch, agg>>

\* lines 303-305 of get(): the keys added to the context
Decorate(context, cfg) ==
    [k \in DOMAIN context \cup {"cache_ttl_minutes", "last_updated_display"} |->
        IF k = "cache_ttl_minutes" THEN cfg.cache_ttl_minutes
        ELSE IF k = "last_updated_display" THEN <<"UTC", context.last_updated>>
        ELSE context[k]]

\* expires_at = now + ttl, with the now of line 296
ExpiresAt(now, cfg) == now + Ttl(cfg)

\* lines 254-280 and 302-305: the aggregation (last_updated = utcnow()), the
\* return to get(), expires_at and the added keys
Aggregated(th, cfg, utcnow) ==
    [th EXCEPT !.pc = "lock2",
               !.context = <<Decorate(BuildContext(cfg, th.transactions, utcnow), cfg)>>,
               !.expires_at = ExpiresAt(th.now, cfg),
               !.fut = <<>>, !.initial = {}, !.queue = <<>>, !.first_failed = 0,
               !.failed_at_start = {}, !.transactions = <<>>]

Aggregate(c) ==
    /\ thread[c].pc = "aggregate"
    /\ thread' = [thread EXCEPT ![c] = Aggregated(thread[c], config, clock)]
    /\ UNCHANGED <<clock, remote, config, entry, lock, history, fetch, agg>>

\* line 307: with self._lock (acquire)
AcquireWrite(c) ==
    /\ thread[c].pc = "lock2"
    /\ lock = None
    /\ lock' = c
    /\ thread' = [thread EXCEPT ![c].pc = "store"]
    /\ UNCHANGED <<clock, remote, config, entry, history, fetch, agg>>

\* CacheEntry(value=context, expires_at=expires_at)
CacheEntry(value, expires_at) == <<[value |-> value, expires_at |-> expires_at]>>

\* lines 308-309: the entry is replaced, the lock released, the context returned
Store(c) ==
    /\ thread[c].pc = "store"
    /\ lock = c
    /\ entry' = CacheEntry(thread[c].context[1], thread[c].expires_at)
    /\ lock' = None
    /\ thread' = [thread EXCEPT ![c].pc = "done",
                                ![c].ret = [kind |-> "value",
                                            value |-> thread[c].context[1],
                                            error |-> None, from |-> 0]]
    /\ UNCHANGED <<clock, remote, config, history, fetch, agg>>

\* time passes
Tick ==
    /\ clock < MaxTime
    /\ clock' = clock + 1
    /\ UNCHANGED <<remote, config, entry, lock, thread, history, fetch, agg>>

\* ------------------------------------------------------- the environment
\* AppConfig after load_config: period_start <= period_end, cache_ttl >= 1
Config(period_start, period_end, cache_ttl_minutes) ==
    [period_start |-> period_start, period_end |-> period_end,
     cache_ttl_minutes |-> cache_ttl_minutes]

MainConfig == Config(<<2024, 1, 1>>, <<2024, 2, 28>>, 2)

\* The remote API of Spec: withdrawals on two pages, deposits on one page,
\* transfers on one empty page without pagination metadata.
MainRemote ==
    [withdrawal |->
        <<Payload(<<Group("rent", <<RawTx(1, Num(-100), Iso(2024, 1, 15),
                                          "housing", "checking", "landlord")>>)>>,
                  TRUE, 2),
          Payload(<<Group("food", <<RawTx(2, Num(50), Iso(2024, 2, 1),
                                          "", "checking", None)>>)>>,
                  TRUE, 2)>>,
     deposit |->
        <<Payload(<<Group("salary", <<RawTx(3, Num(300), Iso(2024, 1, 20),
                                            "salary", "employer", "checking")>>)>>,
                  TRUE, 1)>>,
     transfer |-> <<Payload(<<>>, FALSE, 0)>>]

NoHistory == [prev |-> <<>>, entry0 |-> <<>>]

\* a sequential client: one request thread, one request at a time
Init ==
    /\ clock = 0
    /\ remote = MainRemote
    /\ config = MainConfig
    /\ entry = <<>>
    /\ lock = None
    /\ thread = [c \in {"c1"} |-> Idle]
    /\ history = NoHistory
    /\ fetch = <<>>
    /\ agg = <<>>

Next ==
    \/ Tick
    \/ \E c \in DOMAIN thread :
         \/ CallNext(c)
         \/ AcquireRead(c)
         \/ CheckHit(c)
         \/ CheckMiss(c)
         \/ Submit(c)
         \/ \E i \in 1..Len(thread[c].fut) : FetchPage(c, i)
         \/ AsCompletedStart(c)
         \/ Collect(c)
         \/ ShutdownRaise(c)
         \/ Aggregate(c)
         \/ AcquireWrite(c)
         \/ Store(c)

Spec == Init /\ [][Next]_vars

\* ------------------------------------------------------ threaded server
RECURSIVE FetchRuns(_)
\* the ways a call of fetch_transactions can end against the remote API
FetchRuns(f) ==
    IF f.status # "running" THEN {f}
    ELSE IF f.page > Len(remote[f.type]) THEN {}
    ELSE UNION {FetchRuns(FetchStep(f, response)) :
                    response \in Responses(f.type, f.page)}

RECURSIVE YieldAll(_, _)
\* the for loop of lines 250-252 over the futures in the order as_completed
\* yields them
YieldAll(th, order) ==
    IF th.pc # "collect" \/ order = <<>> THEN th
    ELSE YieldAll(Yield(th, Head(order)), Tail(order))

\* the orders in which as_completed can yield n futures
Orders(n) == {o \in [1..n -> 1..n] : \A i, j \in 1..n : o[i] = o[j] => i = j}

RECURSIVE EndedSets(_)
\* the ways the submitted fetches can all have ended
EndedSets(fut) ==
    IF fut = <<>> THEN {<<>>}
    ELSE {<<ended>> \o rest : ended \in FetchRuns(Head(fut)),
                              rest \in EndedSets(Tail(fut))}

\* The steps of prepare_context after the submits, which touch nothing but the
\* thread's own locals and the remote API, taken at once: the workers run their
\* fetches to the end, as_completed yields the futures in some order, and the
\* call ends at line 303 with a context or raises its exception.
RunPipeline(c) ==
    /\ thread[c].pc = "iterate"
    /\ \E ended \in EndedSets(thread[c].fut) :
       \E order \in Orders(Len(thread[c].fut)) :
         LET th == YieldAll(StartIteration([thread[c] EXCEPT !.fut = ended]), order)
         IN  thread' = [thread EXCEPT ![c] =
                          IF th.pc = "aggregate" THEN Aggregated(th, config, clock)
                          ELSE Raise(th)]
    /\ UNCHANGED <<clock, remote, config, entry, lock, history, fetch, agg>>

InitThreaded ==
    /\ clock = 0
    /\ remote = MainRemote
    /\ config = MainConfig
    /\ entry = <<>>
    /\ lock = None
    /\ thread = [c \in Callers |-> Idle]
    /\ history = NoHistory
    /\ fetch = <<>>
    /\ agg = <<>>

NextThreaded ==
    \/ Tick
    \/ \E c \in DOMAIN thread :
         \/ Call(c)
         \/ AcquireRead(c)
         \/ CheckHit(c)
         \/ CheckMiss(c)
         \/ Submit(c)
         \/ RunPipeline(c)
         \/ AcquireWrite(c)
         \/ Store(c)

\* two request threads calling get() on the one DashboardCache
SpecThreaded == InitThreaded /\ [][NextThreaded]_vars

\* ------------------------------------------- fetch_transactions on its own
Good1 == RawTx(11, Num(40), Iso(2024, 1, 5), "food", "checking", "grocer")

Good2 == RawTx(12, Num(-25), Iso(2024, 2, 9), None, "", None)

BadAmount == RawTx(13, BadText, Iso(2024, 1, 7), "food", "checking", "grocer")

BadDate == RawTx(14, Num(5), BadText, "food", "checking", "grocer")

NoDate == RawTx(15, Num(5), MissingDate, "food", "checking", "grocer")

\* the data a synthetic API may put on a page
DataPool ==
    {<<>>,
     <<Group("a", <<Good1, Good2>>)>>,
     <<Group("b", <<>>), Group("c", <<Good2>>)>>,
     <<Group("d", <<Good1, BadAmount>>)>>,
     <<Group("e", <<NoDate>>), Group("f", <<Good1>>)>>}

\* what a synthetic API may answer to a page request: a failure, or any data
\* with total_pages absent or any number up to one past the horizon
AnyResponse ==
    {HttpError}
    \cup {OkResponse(Payload(data, FALSE, 0)) : data \in DataPool}
    \cup {OkResponse(Payload(data, TRUE, n)) : data \in DataPool, n \in 0..MaxPage + 1}

InitFetch ==
    /\ clock = 0
    /\ remote = MainRemote
    /\ config = MainConfig
    /\ entry = <<>>
    /\ lock = None
    /\ thread = [c \in {"c1"} |-> Idle]
    /\ history = NoHistory
    /\ fetch \in {<<FetchStart(t)>> : t \in TxTypes}
    /\ agg = <<>>

\* one iteration of the loop of a call of fetch_transactions, up to the horizon
FetchAlone ==
    /\ fetch # <<>>
    /\ fetch[1].status = "running"
    /\ fetch[1].page <= MaxPage
    /\ \E response \in AnyResponse : fetch' = <<FetchStep(fetch[1], response)>>
    /\ UNCHANGED <<clock, remote, config, entry, lock, thread, history, agg>>

NextFetch == FetchAlone

SpecFetch == InitFetch /\ [][NextFetch]_vars

\* ------------------------------------------- a remote API with bad records
\* MainRemote with a split transaction that does not parse: a bad amount after
\* a good record on the second page of the withdrawals, a bad date in the
\* deposits, no date in the transfers
MalformedRemotes ==
    {[MainRemote EXCEPT !.withdrawal[2] =
          Payload(<<Group("food", <<RawTx(2, Num(50), Iso(2024, 2, 1), "", "checking", None),
                                    BadAmount>>)>>,
                  TRUE, 2)],
     [MainRemote EXCEPT !.deposit[1] =
          Payload(<<Group("salary", <<BadDate>>),
                    Group("bonus", <<RawTx(4, Num(10), Iso(2024, 2, 2),
                                            "salary", "employer", "checking")>>)>>,
                  TRUE, 1)],
     [MainRemote EXCEPT !.transfer[1] = Payload(<<Group("move", <<NoDate>>)>>, FALSE, 0)]}

InitMalformed ==
    /\ clock = 0
    /\ remote \in {MainRemote} \cup MalformedRemotes
    /\ config = MainConfig
    /\ entry = <<>>
    /\ lock = None
    /\ thread = [c \in {"c1"} |-> Idle]
    /\ history = NoHistory
    /\ fetch = <<>>
    /\ agg = <<>>

\* a sequential client of a cache whose remote API may hold a bad record
SpecMalformed == InitMalformed /\ [][Next]_vars

\* ------------------------------------------------ the aggregation on its own
\* records as _parse_group yields them, in and out of the ranges below
Rec1(t) == ParseTx(RawTx(21, Num(70), Iso(2024, 1, 31), "food", "checking", "grocer"),
                   "jan", t)

Rec2(t) == ParseTx(RawTx(22, Num(-30), Iso(2023, 12, 1), None, "savings", ""), "dec", t)

Rec3(t) == ParseTx(RawTx(23, Num(20), Iso(2023, 10, 10), "fun", "checking", "cinema"),
                   "oct", t)

RecPool(t) == {Rec1(t), Rec2(t), Rec3(t)}

\* the lists of at most n elements of S
SeqsUpTo(S, n) == UNION {[1..k -> S] : k \in 0..n}

\* date ranges with period_start <= period_end: across a year end, inside one
\* month, and from a last day of a month
AggConfigs ==
    {Config(<<2023, 11, 15>>, <<2024, 1, 10>>, 2),
     Config(<<2024, 1, 31>>, <<2024, 1, 31>>, 2),
     Config(<<2023, 12, 31>>, <<2024, 2, 1>>, 2)}

\* the transactions dict of prepare_context, filled in the order the futures
\* were yielded
AggInputs ==
    {[config |-> cfg,
      transactions |-> [i \in 1..3 |-> <<order[i], IF order[i] = "withdrawal" THEN w
                                                   ELSE IF order[i] = "deposit" THEN d
                                                   ELSE t>>],
      context |-> <<>>] :
        cfg \in AggConfigs,
        order \in {TxTypeOrder, <<"transfer", "deposit", "withdrawal">>},
        w \in SeqsUpTo(RecPool("withdrawal"), MaxRecs),
        d \in SeqsUpTo(RecPool("deposit"), MaxRecs),
        t \in SeqsUpTo(RecPool("transfer"), 1)}

InitAgg ==
    /\ clock = 0
    /\ remote = MainRemote
    /\ config = MainConfig
    /\ entry = <<>>
    /\ lock = None
    /\ thread = [c \in {"c1"} |-> Idle]
    /\ history = NoHistory
    /\ fetch = <<>>
    /\ agg \in {<<input>> : input \in AggInputs}

\* lines 254-280 of prepare_context on the input
AggregateAlone ==
    /\ agg # <<>>
    /\ agg[1].context = <<>>
    /\ agg' = <<[agg[1] EXCEPT !.context =
                    <<BuildContext(agg[1].config, agg[1].transactions, clock)>>]>>
    /\ UNCHANGED <<clock, remote, config, entry, lock, thread, history, fetch>>

NextAgg == AggregateAlone

SpecAgg == InitAgg /\ [][NextAgg]_vars

\* --------------------------------------------------- top_breakdown on its own
\* the texts the API puts in category_name, source_name and destination_name:
\* absent, empty, or a name
LabelTexts == <<None, "food", "", "rent", "fun", "travel", "health", "books", "gifts">>

\* the amounts of the split transactions, of either sign
BreakdownAmounts == {Num(1), Num(-2)}

\* a split transaction with the i-th text in its three name fields
LabelledTx(id, i, amount) ==
    RawTx(id, amount, Iso(2024, 1, 1), LabelTexts[i], LabelTexts[i], LabelTexts[i])

\* The split transactions of a page: one for each of the first n texts, and
\* possibly one more with one of those texts, before or after them.
BreakdownRaws ==
    UNION {
      LET base == [i \in 1..n |-> LabelledTx(i, i, amounts[i])]
      IN  {base}
          \cup {<<LabelledTx(n + 1, j, Num(1))>> \o base : j \in 1..n}
          \cup {Append(base, LabelledTx(n + 1, j, Num(1))) : j \in 1..n}
      : n \in 0..MaxLabels, amounts \in [1..MaxLabels -> BreakdownAmounts]}

\* the key of each breakdown of prepare_context (lines 268-272)
BreakdownKeys == {"category", "source", "destination"}

InitBreakdown ==
    /\ clock = 0
    /\ remote = MainRemote
    /\ config = MainConfig
    /\ entry = <<>>
    /\ lock = None
    /\ thread = [c \in {"c1"} |-> Idle]
    /\ history = NoHistory
    /\ fetch = <<>>
    /\ agg \in {<<[raw |-> raw, key |-> key, items |-> <<>>, breakdown |-> <<>>]>> :
                    raw \in BreakdownRaws, key \in BreakdownKeys}

\* the records of the page as _parse_group yields them, and their breakdown
BreakdownAlone ==
    /\ agg # <<>>
    /\ agg[1].breakdown = <<>>
    /\ LET items == parse_group(Group("page", agg[1].raw), "withdrawal").records
       IN  agg' = <<[agg[1] EXCEPT !.items = items,
                                   !.breakdown = <<top_breakdown(items, agg[1].key)>>]>>
    /\ UNCHANGED <<clock, remote, config, entry, lock, thread, history, fetch>>

NextBreakdown == BreakdownAlone

SpecBreakdown == InitBreakdown /\ [][NextBreakdown]_vars

\* ============================================================ properties
\* ------------------------------------------------- of DashboardCache.get
\* C1: on an empty cache a call runs the pipeline; a non-forced call that starts
\* less than ttl after the start of a call that ran the pipeline and returned
\* returns the very snapshot that call returned, without a fetch (one pipeline
\* run for the two calls); and any non-forced call that finds an entry with
\* expires_at > now returns the stored snapshot without a fetch.
C1_HitWithinTtl ==
    \A c \in DOMAIN thread :
      thread[c].pc = "done" =>
        /\ history.entry0 = <<>> => thread[c].fetched
        /\ ( /\ history.prev # <<>>
             /\ history.prev[1].kind = "value"
             /\ history.prev[1].fetched
             /\ ~thread[c].force_refresh
             /\ thread[c].now < history.prev[1].now + Ttl(config) )
           => /\ thread[c].ret.kind = "value"
              /\ thread[c].ret.value = history.prev[1].value
              /\ ~thread[c].fetched
        /\ ( /\ ~thread[c].force_refresh
             /\ history.entry0 # <<>>
             /\ history.entry0[1].expires_at > thread[c].now )
           => /\ thread[c].ret.kind = "value"
              /\ thread[c].ret.value = history.entry0[1].value
              /\ ~thread[c].fetched

\* a second, later, non-forced call has returned within ttl of a first call that
\* filled the empty cache
C1_Witness ==
    \E c \in DOMAIN thread :
      /\ thread[c].pc = "done"
      /\ history.prev # <<>>
      /\ history.prev[1].kind = "value"
      /\ history.prev[1].fetched
      /\ ~thread[c].force_refresh
      /\ history.prev[1].now < thread[c].now
      /\ thread[c].now < history.prev[1].now + Ttl(config)
      /\ thread[c].ret.kind = "value"
      /\ thread[c].ret.value.last_updated < thread[c].now

\* C2: a call with force_refresh runs the pipeline whatever the cache holds, and
\* when the pipeline succeeds the call returns the context it computed and
\* the entry is that context with expires_at = now + ttl.
C2_ForceRefresh ==
    \A c \in DOMAIN thread :
      /\ thread[c].force_refresh => thread[c].pc # "done" \/ thread[c].fetched
      /\ (thread[c].pc = "done" /\ thread[c].force_refresh)
         => /\ thread[c].ret.kind \in {"value", "error"}
            /\ thread[c].ret.kind = "value"
               => /\ thread[c].context # <<>>
                  /\ thread[c].ret.value = thread[c].context[1]
                  /\ thread[c].ret.value.last_updated >= thread[c].now
                  /\ entry = CacheEntry(thread[c].ret.value,
                                        thread[c].now + Ttl(config))

\* a forced call that found a valid entry has returned another snapshot
C2_Witness ==
    \E c \in DOMAIN thread :
      /\ thread[c].pc = "done"
      /\ thread[c].force_refresh
      /\ history.entry0 # <<>>
      /\ history.entry0[1].expires_at > thread[c].now
      /\ thread[c].ret.kind = "value"
      /\ thread[c].ret.value # history.entry0[1].value
      /\ entry # history.entry0

\* C3: while a failure is on its way to the caller and once the call has raised
\* it, the entry is the entry the call found (the same value and expires_at, or
\* none), the call ends with the error and no snapshot, and a non-forced call
\* that follows the failed one within the validity of the entry returns the
\* snapshot of that entry.
C3_FailureKeepsEntry ==
    \A c \in DOMAIN thread :
      /\ thread[c].ret.kind \in {"pending", "error"}
         => /\ entry = history.entry0
            /\ thread[c].fetched
            /\ thread[c].ret.error # None
            /\ thread[c].context = <<>>
      /\ ( /\ thread[c].pc = "done"
           /\ history.prev # <<>>
           /\ history.prev[1].kind = "error"
           /\ ~thread[c].force_refresh
           /\ history.entry0 # <<>>
           /\ history.entry0[1].expires_at > thread[c].now )
         => /\ thread[c].ret.kind = "value"
            /\ thread[c].ret.value = history.entry0[1].value
            /\ ~thread[c].fetched

\* after a failed call on a filled cache the next call was served the old
\* snapshot
C3_Witness ==
    \E c \in DOMAIN thread :
      /\ thread[c].pc = "done"
      /\ history.prev # <<>>
      /\ history.prev[1].kind = "error"
      /\ ~thread[c].force_refresh
      /\ thread[c].ret.kind = "value"
      /\ entry = history.entry0
      /\ thread[c].ret.value = entry[1].value

RECURSIVE PagesRecords(_, _)
\* the records of a list of payloads, page after page
PagesRecords(payloads, transaction_type) ==
    IF payloads = <<>> THEN <<>>
    ELSE ParseData(<<>>, Head(payloads).data, transaction_type).records
         \o PagesRecords(Tail(payloads), transaction_type)

\* the mapping of every category to the records of all the pages the remote
\* API holds for it
CompleteResults ==
    [i \in 1..Len(TxTypeOrder) |->
        <<TxTypeOrder[i], PagesRecords(remote[TxTypeOrder[i]], TxTypeOrder[i])>>]

\* the snapshots aggregated from the complete results, at any instant
CompleteSnapshots ==
    {Decorate(BuildContext(config, CompleteResults, t), config) : t \in 0..MaxTime}

\* C4: the snapshot of the entry, a snapshot a call returned and a context on
\* its way to the cache are aggregated from the records of all the pages of all
\* three categories.
C4_OnlyCompleteSnapshots ==
    /\ entry # <<>> => entry[1].value \in CompleteSnapshots
    /\ \A c \in DOMAIN thread :
         /\ thread[c].ret.kind = "value" => thread[c].ret.value \in CompleteSnapshots
         /\ thread[c].context # <<>> => thread[c].context[1] \in CompleteSnapshots

\* a call that fetched has stored and returned a snapshot with the withdrawals
\* of both pages
C4_Witness ==
    \E c \in DOMAIN thread :
      /\ thread[c].pc = "done"
      /\ thread[c].fetched
      /\ thread[c].ret.kind = "value"
      /\ entry # <<>>
      /\ entry[1].value = thread[c].ret.value
      /\ thread[c].ret.value.totals["withdrawal"] = 150

\* ------------------------------------------------------ of prepare_context
\* the error on its way to the caller is the error of a fetch that failed
ErrorOfFailedFetch(th) ==
    /\ th.ret.kind = "pending"
    /\ th.ret.from \in 1..Len(th.fut)
    /\ th.fut[th.ret.from].status = "raised"
    /\ th.ret.error = th.fut[th.ret.from].error

\* C5 (as the code has it): a failure leaves prepare_context only when all three
\* fetches have ended, each by returning or by raising (none is cancelled); the
\* error is that of one of the fetches that had failed when as_completed
\* started if there is one, else that of the fetch that failed first; and the
\* results of the fetches that returned go nowhere: no context is built and the
\* entry stays as the call found it.
C5_FailureAfterAllEnded ==
    /\ [](\A c \in DOMAIN thread :
            /\ thread[c].pc = "shutdown"
               => /\ ErrorOfFailedFetch(thread[c])
                  /\ thread[c].failed_at_start # {}
                     => thread[c].ret.from \in thread[c].failed_at_start
                  /\ thread[c].failed_at_start = {}
                     => thread[c].ret.from = thread[c].first_failed
            /\ thread[c].ret.kind \in {"pending", "error"}
               => /\ thread[c].context = <<>>
                  /\ entry = history.entry0
            /\ (thread[c].pc = "done" /\ thread[c].ret.kind = "error")
               => thread[c].transactions = <<>>)
    /\ [][\A c \in DOMAIN thread :
            (thread[c].pc = "shutdown" /\ thread'[c].pc # "shutdown")
            => /\ Len(thread[c].fut) = Len(TxTypeOrder)
               /\ \A i \in 1..Len(thread[c].fut) :
                    thread[c].fut[i].status \in {"returned", "raised"}
               /\ thread'[c].pc = "done"
               /\ thread'[c].ret.kind = "error"
               /\ thread'[c].ret.error = thread[c].fut[thread[c].ret.from].error]_vars

\* two fetches had failed when as_completed started, a third returned its
\* records, and the error taken is not that of the fetch that failed first
C5_Witness ==
    \E c \in DOMAIN thread :
      /\ thread[c].pc = "shutdown"
      /\ InFlight(thread[c]) = {}
      /\ Cardinality(thread[c].failed_at_start) = 2
      /\ \E i \in 1..Len(thread[c].fut) : thread[c].fut[i].status = "returned"
      /\ thread[c].ret.from # thread[c].first_failed

\* C5 as stated: the error raised is that of the failed fetch that ended first
C5_ErrorOfFirstFailed ==
    \A c \in DOMAIN thread :
      thread[c].pc = "shutdown" => thread[c].ret.from = thread[c].first_failed

\* the fetches in flight, over all the callers
InFlightAll ==
    {<<c, i>> \in (DOMAIN thread) \X (1..Len(TxTypeOrder)) :
        i \in InFlight(thread[c])}

\* the callers inside prepare_context with their executor open
InPipeline == {c \in DOMAIN thread : thread[c].fut # <<>>}

\* C6 (as the code has it): each call of prepare_context has at most 3 fetches
\* in flight, no two of them of the same category, so that the fetches in
\* flight are at most 3 for each caller inside prepare_context.
C6_ThreePerPipeline ==
    /\ \A c \in DOMAIN thread :
         /\ Cardinality(InFlight(thread[c])) <= max_workers
         /\ Len(thread[c].fut) <= max_workers
         /\ \A i, j \in 1..Len(thread[c].fut) :
              thread[c].fut[i].type = thread[c].fut[j].type => i = j
    /\ Cardinality(InFlightAll) <= max_workers * Cardinality(InPipeline)

\* two callers are inside prepare_context, each with its three fetches in flight
C6_Witness ==
    /\ Cardinality(InPipeline) = 2
    /\ Cardinality(InFlightAll) = 2 * max_workers

\* C6 as stated: at most 3 fetches in flight, whatever the number of callers
C6_ThreeInAll == Cardinality(InFlightAll) <= max_workers

\* --------------------------------------------------- of fetch_transactions
\* every response so far was served with total_pages = n
ConstantTotal(f, n) ==
    \A i \in 1..Len(f.served) :
      /\ f.served[i].ok
      /\ f.served[i].payload.has_total_pages
      /\ f.served[i].payload.total_pages = n

RECURSIVE ServedRecords(_, _)
\* the records of the responses, page after page
ServedRecords(served, transaction_type) ==
    IF served = <<>> THEN <<>>
    ELSE ParseData(<<>>, Head(served).payload.data, transaction_type).records
         \o ServedRecords(Tail(served), transaction_type)

\* C7: against an API that answers total_pages = N >= 1 every time, the
\* requests are for pages 1, 2, ... in that order and never more than N, the
\* call goes on while fewer than N were made, and it returns after exactly N
\* with the records of the N pages concatenated in page order.
C7_ExactlyNRequests ==
    fetch # <<>> =>
      \A n \in 1..(MaxPage + 1) :
        ConstantTotal(fetch[1], n) =>
          /\ Len(fetch[1].requests) <= n
          /\ fetch[1].requests = [i \in 1..Len(fetch[1].requests) |-> i]
          /\ fetch[1].status = "running" => Len(fetch[1].requests) < n
          /\ fetch[1].status = "returned"
             => /\ Len(fetch[1].requests) = n
                /\ fetch[1].transactions = ServedRecords(fetch[1].served, fetch[1].type)

\* a call returned after three pages of an API that said total_pages = 3, with
\* records of more than one page
C7_Witness ==
    /\ fetch # <<>>
    /\ fetch[1].status = "returned"
    /\ ConstantTotal(fetch[1], 3)
    /\ fetch[1].requests = <<1, 2, 3>>
    /\ Len(fetch[1].transactions) >= 3
    /\ fetch[1].served[1].payload.data # <<>>
    /\ fetch[1].served[3].payload.data # <<>>

\* the i-th response of a call came with no total_pages or with total_pages
\* <= the page that was requested
Terminal(f, i) ==
    /\ f.served[i].ok
    /\ \/ ~f.served[i].payload.has_total_pages
       \/ f.served[i].payload.total_pages <= f.requests[i]

\* C8: no request follows a response with the metadata absent or total_pages <=
\* the page requested; a call that returned did so on such a response, and a
\* call that got such a response (and no exception) has returned; while every
\* response reports a total_pages above the page requested the call goes on,
\* its page number one above the number of requests made.
C8_StopsOnTerminalResponse ==
    fetch # <<>> =>
      /\ Len(fetch[1].served) = Len(fetch[1].requests)
      /\ \A i \in 1..(Len(fetch[1].served) - 1) : ~Terminal(fetch[1], i)
      /\ fetch[1].status = "returned"
         => /\ fetch[1].served # <<>>
            /\ Terminal(fetch[1], Len(fetch[1].served))
      /\ ( /\ fetch[1].served # <<>>
           /\ Terminal(fetch[1], Len(fetch[1].served))
           /\ fetch[1].status # "raised" )
         => fetch[1].status = "returned"
      /\ ( /\ \A i \in 1..Len(fetch[1].served) :
                 fetch[1].served[i].ok /\ ~Terminal(fetch[1], i)
           /\ fetch[1].status # "raised" )
         => /\ fetch[1].status = "running"
            /\ fetch[1].page = Len(fetch[1].requests) + 1
            /\ fetch[1].requests = [i \in 1..Len(fetch[1].requests) |-> i]

\* a call stopped at page 2 on a response without total_pages, after a page 1
\* that announced more pages than that
C8_Witness ==
    /\ fetch # <<>>
    /\ fetch[1].status = "returned"
    /\ fetch[1].requests = <<1, 2>>
    /\ fetch[1].served[1].payload.total_pages > 2
    /\ ~fetch[1].served[2].payload.has_total_pages

\* ------------------------------------------------------- of the aggregation
\* C9 as stated: the monthly net series sums to totals.net, and totals.net is
\* totals.deposit - totals.withdrawal, whatever the dates of the records.
C9_NetSumsAgree ==
    (agg # <<>> /\ agg[1].context # <<>>) =>
      /\ SumSeq(agg[1].context[1].monthly_net) = agg[1].context[1].totals["net"]
      /\ agg[1].context[1].totals["net"]
           = agg[1].context[1].totals["deposit"] - agg[1].context[1].totals["withdrawal"]

\* the number of a month, counted from year 0
MonthIndex(value) == value[1] * 12 + value[2] - 1

\* the label of the month of that number
LabelOf(n) == <<n \div 12, (n % 12) + 1>>

\* the amounts of a category booked in the month of a label
BookedIn(transactions, tx_type, label) ==
    LET InMonth(tx) == <<tx.booked_at[1], tx.booked_at[2]>> = label
    IN  SumAmounts(SelectSeq(DictGet(transactions, tx_type, <<>>), InMonth))

\* C10: with period_start <= period_end the labels are the months from that of
\* period_start to that of period_end, each once and in order; the four series
\* are as long as the labels; and each element is the sum of the records of its
\* category booked in its month (net: deposits less withdrawals), zero when
\* there is none.
C10_MonthlySeries ==
    (agg # <<>> /\ agg[1].context # <<>>) =>
      LET cfg == agg[1].config
          ctx == agg[1].context[1]
          first == MonthIndex(cfg.period_start)
          count == MonthIndex(cfg.period_end) - first + 1
          booked(t, i) == BookedIn(agg[1].transactions, t, ctx.monthly_labels[i])
      IN  /\ Len(ctx.monthly_labels) = count
          /\ ctx.months = count
          /\ Len(ctx.monthly_withdrawals) = count
          /\ Len(ctx.monthly_deposits) = count
          /\ Len(ctx.monthly_transfers) = count
          /\ Len(ctx.monthly_net) = count
          /\ \A i \in 1..count :
               /\ ctx.monthly_labels[i] = LabelOf(first + i - 1)
               /\ ctx.monthly_withdrawals[i] = booked("withdrawal", i)
               /\ ctx.monthly_deposits[i] = booked("deposit", i)
               /\ ctx.monthly_transfers[i] = booked("transfer", i)
               /\ ctx.monthly_net[i] = booked("deposit", i) - booked("withdrawal", i)

\* a range of three months across a year end, one of them without any record
\* and all zero, another with a withdrawal
C10_Witness ==
    /\ agg # <<>>
    /\ agg[1].context # <<>>
    /\ agg[1].context[1].monthly_labels = <<<<2023, 11>>, <<2023, 12>>, <<2024, 1>>>>
    /\ agg[1].context[1].monthly_withdrawals = <<0, 0, 70>>
    /\ agg[1].context[1].monthly_deposits = <<0, 30, 0>>
    /\ agg[1].context[1].monthly_transfers = <<0, 0, 0>>
    /\ agg[1].context[1].monthly_net = <<0, 30, -70>>

\* ----------------------------------------------------------- of top_breakdown
\* the labels of a list of records under a key
LabelsOf(items, key) == {items[i][key] : i \in 1..Len(items)}

\* the sum of the amounts of the records of a label
GroupSum(items, key, label) ==
    LET OfLabel(tx) == tx[key] = label
    IN  SumAmounts(SelectSeq(items, OfLabel))

\* the position of the first record of a label
FirstSeen(items, key, label) ==
    CHOOSE i \in 1..Len(items) :
      /\ items[i][key] = label
      /\ \A j \in 1..(i - 1) : items[j][key] # label

\* the labels listed in a breakdown
Listed(breakdown) == {breakdown[i][1] : i \in 1..Len(breakdown)}

\* C11 (as the code has it): a breakdown has at most 5 entries, as many as
\* there are groups if these are fewer; each entry is a group with its sum; the
\* amounts never increase along the list (equal sums stay next to each other);
\* and no group left out has a larger sum than a listed one.
C11_RankedTopFive ==
    (agg # <<>> /\ agg[1].breakdown # <<>>) =>
      LET items == agg[1].items
          key == agg[1].key
          list == agg[1].breakdown[1]
      IN  /\ Len(list) = Min(BreakdownLimit, Cardinality(LabelsOf(items, key)))
          /\ \A i \in 1..Len(list) :
               /\ list[i][1] \in LabelsOf(items, key)
               /\ list[i][2] = GroupSum(items, key, list[i][1])
          /\ \A i, j \in 1..Len(list) : list[i][1] = list[j][1] => i = j
          /\ \A i \in 1..(Len(list) - 1) : list[i][2] >= list[i + 1][2]
          /\ \A label \in LabelsOf(items, key) \ Listed(list) :
               \A i \in 1..Len(list) : GroupSum(items, key, label) <= list[i][2]

\* more than five groups, five listed, two neighbours of the list with equal
\* sums and a group of a smaller sum left out
C11_Witness ==
    /\ agg # <<>>
    /\ agg[1].breakdown # <<>>
    /\ Cardinality(LabelsOf(agg[1].items, agg[1].key)) > BreakdownLimit
    /\ Len(agg[1].breakdown[1]) = BreakdownLimit
    /\ \E i \in 1..(BreakdownLimit - 1) :
         agg[1].breakdown[1][i][2] = agg[1].breakdown[1][i + 1][2]
    /\ \E label \in LabelsOf(agg[1].items, agg[1].key) :
         GroupSum(agg[1].items, agg[1].key, label) < agg[1].breakdown[1][BreakdownLimit][2]

\* C11 as stated: each entry's amount is strictly greater than the next one's
C11_StrictlyDescending ==
    (agg # <<>> /\ agg[1].breakdown # <<>>) =>
      /\ Len(agg[1].breakdown[1]) <= BreakdownLimit
      /\ \A i \in 1..(Len(agg[1].breakdown[1]) - 1) :
           agg[1].breakdown[1][i][2] > agg[1].breakdown[1][i + 1][2]

\* C12: of two labels with equal sums the one whose first record comes earlier
\* in the input is ranked first, and when one of them is cut off by the limit
\* of five it is the one seen later.
C12_TiesInFirstSeenOrder ==
    (agg # <<>> /\ agg[1].breakdown # <<>>) =>
      LET items == agg[1].items
          key == agg[1].key
          list == agg[1].breakdown[1]
      IN  /\ \A i, j \in 1..Len(list) :
               (i < j /\ list[i][2] = list[j][2])
               => FirstSeen(items, key, list[i][1]) < FirstSeen(items, key, list[j][1])
          /\ \A label \in LabelsOf(items, key) \ Listed(list) :
               \A i \in 1..Len(list) :
                 GroupSum(items, key, label) = list[i][2]
                 => FirstSeen(items, key, list[i][1]) < FirstSeen(items, key, label)

\* the fifth entry ties with a group seen later, which is left out; two
\* neighbours of the list tie; and the ranking is not the input order
C12_Witness ==
    /\ agg # <<>>
    /\ agg[1].breakdown # <<>>
    /\ Len(agg[1].breakdown[1]) = BreakdownLimit
    /\ \E label \in LabelsOf(agg[1].items, agg[1].key) \ Listed(agg[1].breakdown[1]) :
         GroupSum(agg[1].items, agg[1].key, label) = agg[1].breakdown[1][BreakdownLimit][2]
    /\ \E i \in 1..(BreakdownLimit - 1) :
         agg[1].breakdown[1][i][2] = agg[1].breakdown[1][i + 1][2]
    /\ \E i \in 1..(BreakdownLimit - 1) :
         FirstSeen(agg[1].items, agg[1].key, agg[1].breakdown[1][i][1])
           > FirstSeen(agg[1].items, agg[1].key, agg[1].breakdown[1][i + 1][1])

\* the text of a name field is absent or empty
Missing(text) == text = None \/ text = ""

\* C15: the records of a page whose category_name is absent or empty all carry
\* the one fallback category, those whose source_name (destination_name) is
\* absent or empty the one fallback account, every other record its own text;
\* and a breakdown lists each label once, the fallback label with the sum of
\* all the records that carry it.
C15_FallbackLabelsMerge ==
    (agg # <<>> /\ agg[1].breakdown # <<>>) =>
      LET raw == agg[1].raw
          items == agg[1].items
          key == agg[1].key
          list == agg[1].breakdown[1]
          fallback == IF key = "category" THEN FallbackCategory ELSE FallbackAccount
      IN  /\ Len(items) = Len(raw)
          /\ \A i \in 1..Len(raw) :
               /\ items[i].category = IF Missing(raw[i].category_name)
                                      THEN FallbackCategory ELSE raw[i].category_name
               /\ items[i].source = IF Missing(raw[i].source_name)
                                    THEN FallbackAccount ELSE raw[i].source_name
               /\ items[i].destination = IF Missing(raw[i].destination_name)
                                         THEN FallbackAccount ELSE raw[i].destination_name
          /\ \A i, j \in 1..Len(list) : list[i][1] = list[j][1] => i = j
          /\ \A i \in 1..Len(list) :
               list[i][1] = fallback
               => list[i][2] = GroupSum(items, key, fallback)
          /\ \A i \in 1..Len(list) : ~Missing(list[i][1])

\* a record without category_name and one with an empty one are one entry of
\* the breakdown by category, with the sum of the two
C15_Witness ==
    /\ agg # <<>>
    /\ agg[1].breakdown # <<>>
    /\ agg[1].key = "category"
    /\ \E i, j \in 1..Len(agg[1].raw) :
         /\ agg[1].raw[i].category_name = None
         /\ agg[1].raw[j].category_name = ""
         /\ \E k \in 1..Len(agg[1].breakdown[1]) :
              /\ agg[1].breakdown[1][k][1] = FallbackCategory
              /\ agg[1].breakdown[1][k][2]
                   = agg[1].items[i].amount + agg[1].items[j].amount

\* ------------------------------------------------------------- end to end
\* the booked date and the amount of each record of a category
DatesAndAmounts(transactions, tx_type) ==
    LET items == DictGet(transactions, tx_type, <<>>)
    IN  [i \in 1..Len(items) |-> <<items[i].booked_at, items[i].amount>>]

\* C13: when the three fetches have brought withdrawals (2024-01-15, 100) and
\* (2024-02-01, 50), a deposit (2024-01-20, 300) and no transfer, for the range
\* 2024-01-01..2024-02-28, the context has the labels 2024-01 and 2024-02, the
\* withdrawal series [100, 50], the deposit series [300, 0], the net series
\* [200, -50] and the totals withdrawal 150, deposit 300, net 150.
C13_EndToEnd ==
    /\ config.period_start = <<2024, 1, 1>>
    /\ config.period_end = <<2024, 2, 28>>
    /\ \A c \in DOMAIN thread :
         /\ thread[c].pc = "aggregate"
            => /\ DatesAndAmounts(thread[c].transactions, "withdrawal")
                    = <<<<<<2024, 1, 15>>, 100>>, <<<<2024, 2, 1>>, 50>>>>
               /\ DatesAndAmounts(thread[c].transactions, "deposit")
                    = <<<<<<2024, 1, 20>>, 300>>>>
               /\ DatesAndAmounts(thread[c].transactions, "transfer") = <<>>
         /\ thread[c].context # <<>>
            => /\ thread[c].context[1].monthly_labels = <<<<2024, 1>>, <<2024, 2>>>>
               /\ thread[c].context[1].monthly_withdrawals = <<100, 50>>
               /\ thread[c].context[1].monthly_deposits = <<300, 0>>
               /\ thread[c].context[1].monthly_net = <<200, -50>>
               /\ thread[c].context[1].totals["withdrawal"] = 150
               /\ thread[c].context[1].totals["deposit"] = 300
               /\ thread[c].context[1].totals["net"] = 150

\* a call has returned the context of the example
C13_Witness ==
    \E c \in DOMAIN thread :
      /\ thread[c].pc = "done"
      /\ thread[c].ret.kind = "value"
      /\ thread[c].context # <<>>
      /\ thread[c].ret.value = thread[c].context[1]
      /\ thread[c].ret.value.monthly_net = <<200, -50>>
      /\ thread[c].ret.value.monthly_transfers = <<0, 0>>

\* ------------------------------------------------------- of bad records
RECURSIVE Flatten(_)
\* the elements of a list of lists, in order
Flatten(lists) == IF lists = <<>> THEN <<>> ELSE Head(lists) \o Flatten(Tail(lists))

\* the split transactions of the pages the remote API holds for a category,
\* page after page and group after group
SplitsOf(tx_type) ==
    Flatten([p \in 1..Len(remote[tx_type]) |->
                Flatten([g \in 1..Len(remote[tx_type][p].data) |->
                            remote[tx_type][p].data[g].transactions])])

\* the amount or the date of a split transaction cannot be parsed
Unparseable(transaction) ==
    transaction.amount.k = "bad" \/ transaction.date.k \in {"bad", "missing"}

\* some split transaction of the category cannot be parsed
HasUnparseable(tx_type) ==
    \E i \in 1..Len(SplitsOf(tx_type)) : Unparseable(SplitsOf(tx_type)[i])

\* C14: a fetch of a category with a split transaction that cannot be parsed
\* never returns, and a fetch that returns has one record for each split
\* transaction of every page, in order; when some category has such a split
\* transaction no context is ever built, stored or returned, and every call
\* ends with an error.
C14_BadRecordAbortsRefresh ==
    \A c \in DOMAIN thread :
      /\ \A i \in 1..Len(thread[c].fut) :
           thread[c].fut[i].status = "returned"
           => /\ ~HasUnparseable(thread[c].fut[i].type)
              /\ Len(thread[c].fut[i].transactions) = Len(SplitsOf(thread[c].fut[i].type))
              /\ \A n \in 1..Len(thread[c].fut[i].transactions) :
                   thread[c].fut[i].transactions[n].id
                     = SplitsOf(thread[c].fut[i].type)[n].transaction_journal_id
      /\ (\E t \in TxTypes : HasUnparseable(t))
         => /\ entry = <<>>
            /\ thread[c].context = <<>>
            /\ thread[c].ret.kind # "value"
            /\ thread[c].pc \notin {"aggregate", "lock2", "store"}
            /\ thread[c].pc = "done"
               => /\ thread[c].ret.kind = "error"
                  /\ thread[c].ret.error
                       \in {"InvalidOperation", "ValueError", "TypeError", "HTTPError"}

\* a call has ended with the error of the bad amount on the second page of the
\* withdrawals, and the cache is empty
C14_Witness ==
    \E c \in DOMAIN thread :
      /\ HasUnparseable("withdrawal")
      /\ thread[c].pc = "done"
      /\ thread[c].ret.kind = "error"
      /\ thread[c].ret.error = "InvalidOperation"
      /\ TxTypeOrder[thread[c].ret.from] = "withdrawal"
      /\ entry = <<>>

\* ------------------------------------------------------ of concurrent callers
\* the cache holds an entry that a call started at `now` takes as valid
Valid(e, now) == e # <<>> /\ e[1].expires_at > now

\* C16: a caller without force_refresh that makes its check while the cache is
\* empty or expired can always go on to a pipeline of its own, whatever the
\* other callers are doing, and that is the only way on: its next step takes it
\* into prepare_context, where it submits its own three fetches, each from
\* page 1, to its own executor.
C16_EachCallerRefreshes ==
    /\ [](\A c \in DOMAIN thread :
            /\ ( /\ thread[c].pc = "check"
                 /\ ~thread[c].force_refresh
                 /\ ~Valid(entry, thread[c].now) )
               => (ENABLED CheckMiss(c)) /\ ~(ENABLED CheckHit(c))
            /\ thread[c].pc = "prepare" => ENABLED Submit(c))
    /\ [][\A c \in DOMAIN thread :
            /\ ( /\ thread[c].pc = "check"
                 /\ ~thread[c].force_refresh
                 /\ ~Valid(entry, thread[c].now)
                 /\ thread'[c] # thread[c] )
               => thread'[c].pc = "prepare"
            /\ (thread[c].pc = "prepare" /\ thread'[c] # thread[c])
               => /\ thread'[c].pc = "iterate"
                  /\ thread'[c].fetched
                  /\ thread'[c].fut
                       = [i \in 1..Len(TxTypeOrder) |-> FetchStart(TxTypeOrder[i])]]_vars

\* two callers without force_refresh found the cache empty and each has its
\* three fetches in flight
C16_Witness ==
    /\ entry = <<>>
    /\ \A c \in Callers :
         /\ c \in DOMAIN thread
         /\ ~thread[c].force_refresh
         /\ thread[c].pc = "iterate"
         /\ Cardinality(InFlight(thread[c])) = Len(TxTypeOrder)

\* C17: the lock is held only by a caller that is at its check or at its store,
\* never by one whose pipeline runs; a caller waiting for the lock gets it as
\* soon as it is free, and a caller without force_refresh that holds it on a
\* valid entry returns the stored snapshot in its next step, whatever refresh
\* is in flight.
C17_NoLockOverPipeline ==
    /\ [](\A c \in DOMAIN thread :
            /\ lock = c => thread[c].pc \in {"check", "store"} /\ thread[c].fut = <<>>
            /\ thread[c].pc \in {"check", "store"} => lock = c
            /\ (thread[c].pc = "lock1" /\ lock = None) => ENABLED AcquireRead(c)
            /\ ( /\ thread[c].pc = "check"
                 /\ ~thread[c].force_refresh
                 /\ Valid(entry, thread[c].now) )
               => ENABLED CheckHit(c))
    /\ [][\A c \in DOMAIN thread :
            ( /\ thread[c].pc = "check"
              /\ ~thread[c].force_refresh
              /\ Valid(entry, thread[c].now)
              /\ thread'[c] # thread[c] )
            => /\ thread'[c].pc = "done"
               /\ thread'[c].ret.kind = "value"
               /\ thread'[c].ret.value = entry[1].value
               /\ ~thread'[c].fetched
               /\ lock' = None]_vars

\* while the forced refresh of one caller is in flight another caller, which
\* started after it, has been served the stored snapshot
C17_Witness ==
    \E c, d \in DOMAIN thread :
      /\ c # d
      /\ thread[c].pc = "iterate"
      /\ thread[c].force_refresh
      /\ InFlight(thread[c]) # {}
      /\ thread[d].pc = "done"
      /\ ~thread[d].force_refresh
      /\ ~thread[d].fetched
      /\ thread[d].now > thread[c].now
      /\ thread[d].ret.kind = "value"
      /\ entry # <<>>
      /\ thread[d].ret.value = entry[1].value

\* C18: when the loop over the completed fetches is over, the mapping has the
\* keys withdrawal, deposit and transfer and no other, each with the records
\* fetched for that category, and the context built from it is the context
\* built from the same mapping filled in any other order.
C18_CompletionOrderIrrelevant ==
    \A c \in DOMAIN thread :
      thread[c].pc = "aggregate" =>
        /\ Len(thread[c].transactions) = Len(TxTypeOrder)
        /\ DictKeys(thread[c].transactions) = TxTypes
        /\ \A t \in TxTypes :
             DictGet(thread[c].transactions, t, <<>>) = PagesRecords(remote[t], t)
        /\ \A order \in Orders(Len(thread[c].transactions)) :
             BuildContext(config,
                          [i \in 1..Len(order) |-> thread[c].transactions[order[i]]],
                          clock)
               = BuildContext(config, thread[c].transactions, clock)

\* the fetches completed in the order transfer, deposit, withdrawal
C18_Witness ==
    \E c \in DOMAIN thread :
      /\ thread[c].pc = "aggregate"
      /\ thread[c].transactions[1][1] = "transfer"
      /\ thread[c].transactions[2][1] = "deposit"
      /\ thread[c].transactions[3][1] = "withdrawal"
      /\ Len(thread[c].transactions[3][2]) = 2

\* ------------------------------------------------------- of the entry in time
\* C19 as stated: the entry a refresh installs expires ttl after the instant it
\* is installed, and is valid at that instant.
C19_ValidOnInstall ==
    [][\A c \in DOMAIN thread :
         (thread[c].pc = "store" /\ thread'[c].pc = "done")
         => /\ entry' # <<>>
            /\ entry'[1].expires_at = clock' + Ttl(config)
            /\ Valid(entry', clock')]_vars

\* C20 as stated: the entry is written by one refresh, value and expires_at
\* together, never goes back to absent, and its expires_at never decreases.
C20_EntryNeverOlder ==
    [][/\ entry' # entry
          => \E c \in DOMAIN thread :
               /\ thread[c].pc = "store"
               /\ entry' = CacheEntry(thread[c].context[1], thread[c].now + Ttl(config))
       /\ entry # <<>>
          => /\ entry' # <<>>
             /\ entry'[1].expires_at >= entry[1].expires_at]_vars

====
